---- MODULE Spec2Model ----
(***************************************************************************)
(* Model of src/main.py: the GitHub webhook receiver that verifies the     *)
(* X-Hub-Signature-256 header, filters on event type and ref, and then     *)
(* force-updates the local deploy working copy (pull_repo).                *)
(***************************************************************************)
EXTENDS Integers, Sequences, FiniteSets, TLC

(* ----------------------------- bounds ---------------------------------- *)
\* number of request coroutines the one server process can have in flight
NumReq == 1
\* number of near-simultaneous qualifying pushes in the concurrent scenario
NumConc == 2

(* ----------------------- Python values used ---------------------------- *)
\* Python's None, as os.getenv and dict/headers .get return it
None == "None"

\* the result of evaluating a Python call: a returned value or an exception
Return(v) == [exc |-> "none", val |-> v]
Raise(e) == [exc |-> e, val |-> FALSE]

\* JSON values as json.loads builds them
JNull == [t |-> "null"]
JStr(s) == [t |-> "str", s |-> s]
JArr(a) == [t |-> "arr", a |-> a]
JObj(f) == [t |-> "obj", f |-> f]
EmptyDict == JObj(<<>>)

\* dict.get(key, default) on a dict
DictGet(o, k, d) == IF k \in DOMAIN o.f THEN o.f[k] ELSE d

\* str(v) as an f-string renders the values that reach one here
PyStr(v) == IF v.t = "str" THEN v.s ELSE IF v.t = "null" THEN "None" ELSE v.t

(* --------------------------- the inputs -------------------------------- *)
\* secrets a sender may sign with; the first is the one the server is given
Secrets == {"k1", "k2"}

\* request bodies, named by their bytes
Bodies == {"not json", "[1]", "{}", "{ref:main}",
           "{ref:deploy}", "{ref:deploy,pusher:null}",
           "{ref:deploy,pusher:{},commits:[]}",
           "{ref:deploy,pusher:{name:alice},commits:[{id,message}]}",
           "{ref:deploy,commits:[{message}]}",
           "{ref:deploy,commits:[{id}]}"}

Deploy == JStr("refs/heads/deploy")
Commit(keys) == JObj([k \in keys |-> JStr("c0ffee1234")])

\* json.loads(body): the value the bytes denote, or JSONDecodeError
json_loads(b) ==
    CASE b = "not json" -> Raise("JSONDecodeError")
      [] b = "[1]" -> Return(JArr(<<JStr("1")>>))
      [] b = "{}" -> Return(EmptyDict)
      [] b = "{ref:main}" -> Return(JObj([ref |-> JStr("refs/heads/main")]))
      [] b = "{ref:deploy}" -> Return(JObj([ref |-> Deploy]))
      [] b = "{ref:deploy,pusher:null}" ->
            Return(JObj([ref |-> Deploy, pusher |-> JNull]))
      [] b = "{ref:deploy,pusher:{},commits:[]}" ->
            Return(JObj([ref |-> Deploy, pusher |-> EmptyDict, commits |-> JArr(<<>>)]))
      [] b = "{ref:deploy,pusher:{name:alice},commits:[{id,message}]}" ->
            Return(JObj([ref |-> Deploy, pusher |-> JObj([name |-> JStr("alice")]),
                         commits |-> JArr(<<Commit({"id", "message"})>>)]))
      [] b = "{ref:deploy,commits:[{message}]}" ->
            Return(JObj([ref |-> Deploy, commits |-> JArr(<<Commit({"message"})>>)]))
      [] b = "{ref:deploy,commits:[{id}]}" ->
            Return(JObj([ref |-> Deploy, commits |-> JArr(<<Commit({"id"})>>)]))

\* X-GitHub-Event values (None: header absent)
Events == {"push", "pull_request", None}

\* hexHMAC(key, body): HMAC-SHA256 as a collision-free keyed function,
\* rendered as one lowercase-hex token
hexdigest(key, b) == "hmac(" \o key \o "," \o b \o ")"

\* a header value is a string, kept as its sequence of tokens: "=" is the
\* separator character, every other token is a run of characters without "="
NonAscii == {"\\xe9"}
NoHeader == [present |-> FALSE, s |-> <<>>]
Hdr(s) == [present |-> TRUE, s |-> s]

\* the X-Hub-Signature-256 values a sender may attach to body b
Headers(b) ==
    {NoHeader, Hdr(<<>>), Hdr(<<"malformed">>), Hdr(<<"md5", "=", "abcd">>),
     Hdr(<<"sha256", "=", "zz">>), Hdr(<<"sha256", "=", "\\xe9">>),
     Hdr(<<"sha256", "=", hexdigest("k1", b), "=", "zz">>)}
    \cup {Hdr(<<"sha256", "=", hexdigest(k, b)>>) : k \in Secrets}

(* ------------------------- verify_signature ---------------------------- *)
\* str.split("="): the parts between the separators
RECURSIVE Split(_)
Split(s) ==
    IF s = <<>> THEN << <<>> >>
    ELSE LET rest == Split(Tail(s)) IN
         IF Head(s) = "=" THEN << <<>> >> \o rest
         ELSE << <<Head(s)>> \o Head(rest) >> \o Tail(rest)

IsAscii(s) == \A i \in DOMAIN s : s[i] \notin NonAscii

\* compare_digest that only compares the lengths of the two digests
compare_digest_LengthOnly(a, b) ==
    IF IsAscii(a) /\ IsAscii(b) THEN Return(Len(a) = Len(b)) ELSE Raise("TypeError")

\* hmac.compare_digest on two str: TypeError unless both are ASCII
compare_digest(a, b) ==
    IF IsAscii(a) /\ IsAscii(b) THEN Return(a = b) ELSE Raise("TypeError")

\* verify_signature with the module-level secret passed explicitly
VerifyWith(secret, request_body, signature_header) ==
    IF ~signature_header.present \/ signature_header.s = <<>> THEN Return(FALSE)
    ELSE LET parts == Split(signature_header.s) IN
         IF Len(parts) # 2 THEN Return(FALSE)
         ELSE LET sha_name == parts[1]
                  signature == parts[2] IN
              IF sha_name # <<"sha256">> THEN Return(FALSE)
              ELSE IF secret = None THEN Raise("AttributeError")
              ELSE compare_digest(<<hexdigest(secret, request_body)>>, signature)

(* ------------------------------ state ---------------------------------- *)
VARIABLES
    GITHUB_WEBHOOK_SECRET,  \* os.getenv results, read once at import
    LOCAL_DEPLOY_REPO,
    REMOTE_REPO_URL,
    isdir,                  \* os.path.isdir(LOCAL_DEPLOY_REPO) on the file system
    loop,                   \* the coroutine running on the event loop, 0 if none
    pc,                     \* per request: the line github_webhook is at
    body,                   \* per request: local `body`
    signature_header,       \* per request: local `signature_header`
    event,                  \* per request: local `event`
    pusher,                 \* per request: local `pusher`
    proc,                   \* per request: the child process being waited for
    cmds,                   \* per request: subprocess.run calls made, in order
    printed,                \* per request: the outcome lines printed
    exc,                    \* per request: the exception that left the handler
    resp,                   \* per request: the HTTP response sent
    worktree,               \* the revision checked out in LOCAL_DEPLOY_REPO
    origin_deploy,          \* the working copy's remote-tracking ref origin/deploy
    odoo_loaded             \* the revision the Odoo container last updated to

config == <<GITHUB_WEBHOOK_SECRET, LOCAL_DEPLOY_REPO, REMOTE_REPO_URL>>
locals == <<body, signature_header, event, pusher>>
repo == <<worktree, origin_deploy, odoo_loaded>>
vars == <<GITHUB_WEBHOOK_SECRET, LOCAL_DEPLOY_REPO, REMOTE_REPO_URL, isdir, loop,
          pc, body, signature_header, event, pusher, proc, cmds, printed, exc, resp,
          worktree, origin_deploy, odoo_loaded>>

\* the tip of branch deploy on the remote
RemoteTip == "new"

Req == 1..NumReq

NoResp == [status |-> 0, message |-> ""]
Resp(st, m) == [status |-> st, message |-> m]

verify_signature(request_body, header) ==
    VerifyWith(GITHUB_WEBHOOK_SECRET, request_body, header)

Init ==
    /\ GITHUB_WEBHOOK_SECRET \in {None, "k1"}
    /\ LOCAL_DEPLOY_REPO \in {None, "/srv/deploy"}
    /\ REMOTE_REPO_URL \in {None, "git@host:repo.git"}
    /\ isdir \in (IF LOCAL_DEPLOY_REPO = None THEN {FALSE} ELSE BOOLEAN)
    /\ loop = 0
    /\ pc = [r \in Req |-> "idle"]
    /\ body = [r \in Req |-> ""]
    /\ signature_header = [r \in Req |-> NoHeader]
    /\ event = [r \in Req |-> None]
    /\ pusher = [r \in Req |-> ""]
    /\ proc = [r \in Req |-> ""]
    /\ cmds = [r \in Req |-> <<>>]
    /\ printed = [r \in Req |-> {}]
    /\ exc = [r \in Req |-> "none"]
    /\ resp = [r \in Req |-> NoResp]
    /\ worktree = (IF isdir THEN "old" ELSE "none")
    /\ origin_deploy = (IF isdir THEN "old" ELSE "none")
    /\ odoo_loaded = "old"

(* ------------------------- leaving the handler ------------------------- *)
\* the handler returns a dict: FastAPI answers 200 with it
ReturnMessage(r, m) ==
    /\ resp' = [resp EXCEPT ![r] = Resp(200, m)]
    /\ pc' = [pc EXCEPT ![r] = "done"]
    /\ loop' = 0
    /\ UNCHANGED exc

\* raise HTTPException(status_code=401, detail="Invalid signature")
RaiseHTTP401(r) ==
    /\ resp' = [resp EXCEPT ![r] = Resp(401, "Invalid signature")]
    /\ pc' = [pc EXCEPT ![r] = "done"]
    /\ loop' = 0
    /\ UNCHANGED exc

\* any other exception leaves the handler uncaught: the server answers 500
Propagate(r, e) ==
    /\ resp' = [resp EXCEPT ![r] = Resp(500, "Internal Server Error")]
    /\ exc' = [exc EXCEPT ![r] = e]
    /\ pc' = [pc EXCEPT ![r] = "done"]
    /\ loop' = 0

Goto(r, l) ==
    /\ pc' = [pc EXCEPT ![r] = l]
    /\ UNCHANGED <<loop, exc, resp>>

(* --------------------------- github_webhook ---------------------------- *)
\* a POST /webhook/github arrives and its coroutine waits for the body
Deliver(r) ==
    /\ pc[r] \in {"idle", "done"}
    /\ pc' = [pc EXCEPT ![r] = "await_body"]
    /\ body' = [body EXCEPT ![r] = ""]
    /\ signature_header' = [signature_header EXCEPT ![r] = NoHeader]
    /\ event' = [event EXCEPT ![r] = None]
    /\ pusher' = [pusher EXCEPT ![r] = ""]
    /\ proc' = [proc EXCEPT ![r] = ""]
    /\ cmds' = [cmds EXCEPT ![r] = <<>>]
    /\ printed' = [printed EXCEPT ![r] = {}]
    /\ exc' = [exc EXCEPT ![r] = "none"]
    /\ resp' = [resp EXCEPT ![r] = NoResp]
    /\ UNCHANGED <<config, isdir, repo, loop>>

\* LoopFree for a handler declared `def`: run in the thread pool, it never
\* waits for the event loop
LoopFree_ThreadPool == TRUE

\* the event loop can resume a coroutine: the one it was running (an
\* `async def` handler, blocking in subprocess.run) has returned or awaits
LoopFree == loop = 0

\* body = await request.body(); signature_header = request.headers.get(...)
\* from here to its response the coroutine never awaits: it keeps the loop
ReadRequest(r) ==
    /\ pc[r] = "await_body"
    /\ LoopFree
    /\ \E b \in Bodies : \E h \in Headers(b) :
         /\ body' = [body EXCEPT ![r] = b]
         /\ signature_header' = [signature_header EXCEPT ![r] = h]
    /\ loop' = r
    /\ pc' = [pc EXCEPT ![r] = "verify"]
    /\ UNCHANGED <<config, isdir, repo, event, pusher, proc, cmds, printed, exc, resp>>

\* Verify with the 401 branch lost: a rejected signature falls through
Verify_NoReject(r) ==
    /\ pc[r] = "verify"
    /\ LET v == verify_signature(body[r], signature_header[r]) IN
         IF v.exc # "none" THEN Propagate(r, v.exc)
         ELSE Goto(r, "event")
    /\ UNCHANGED <<config, isdir, repo, locals, proc, cmds, printed>>

\* if not verify_signature(body, signature_header): raise HTTPException(401)
Verify(r) ==
    /\ pc[r] = "verify"
    /\ LET v == verify_signature(body[r], signature_header[r]) IN
         IF v.exc # "none" THEN Propagate(r, v.exc)
         ELSE IF ~v.val THEN RaiseHTTP401(r)
         ELSE Goto(r, "event")
    /\ UNCHANGED <<config, isdir, repo, locals, proc, cmds, printed>>

\* EventFilter applied only after parsing: every event goes on to json.loads
EventFilter_ParseFirst(e) == "parse"

\* the event filter: the pc a verified request goes to for event e
EventFilter(e) == IF e # "push" THEN "ignored" ELSE "parse"

\* event = request.headers.get("X-GitHub-Event"); if event != "push": return
ClassifyEvent(r) ==
    /\ pc[r] = "event"
    /\ \E e \in Events :
         /\ event' = [event EXCEPT ![r] = e]
         /\ IF EventFilter(e) = "ignored"
            THEN ReturnMessage(r, "Ignored event: " \o e)
            ELSE Goto(r, EventFilter(e))
    /\ UNCHANGED <<config, isdir, repo, body, signature_header, pusher, proc, cmds, printed>>

\* payload = json.loads(body); ref = payload.get("ref")
PayloadRef(b) ==
    LET payload == json_loads(b) IN
    IF payload.exc # "none" THEN payload
    ELSE IF payload.val.t # "obj" THEN Raise("AttributeError")
    ELSE Return(DictGet(payload.val, "ref", JNull))

\* BranchFilter comparing against the short branch name: nothing is ignored
\* that names a branch at all
BranchFilter_AnyBranch(ref) == IF ref.t # "str" THEN "ignored" ELSE "log"

\* the branch filter: the pc a push with this ref goes to
BranchFilter(ref) == IF ref # Deploy THEN "ignored" ELSE "log"

\* lines 95-98: parse the body, return early unless ref is the deploy branch
ClassifyBranch(r) ==
    /\ pc[r] = "parse"
    /\ LET ref == PayloadRef(body[r]) IN
         IF ref.exc # "none" THEN Propagate(r, ref.exc)
         ELSE IF BranchFilter(ref.val) = "ignored"
         THEN ReturnMessage(r, "Ignored branch: " \o PyStr(ref.val))
         ELSE Goto(r, BranchFilter(ref.val))
    /\ UNCHANGED <<config, isdir, repo, locals, proc, cmds, printed>>

\* c['id'][:7] and c['message'] for one commit of the list
RECURSIVE PrintCommits(_)
PrintCommits(cs) ==
    IF cs = <<>> THEN Return(TRUE)
    ELSE LET c == Head(cs) IN
         IF c.t # "obj" THEN Raise("TypeError")
         ELSE IF "id" \notin DOMAIN c.f THEN Raise("KeyError")
         ELSE IF c.f["id"].t \notin {"str", "arr"} THEN Raise("TypeError")
         ELSE IF "message" \notin DOMAIN c.f THEN Raise("KeyError")
         ELSE PrintCommits(Tail(cs))

\* lines 100-106: the pusher name, or the exception the logging raises
PusherAndCommits(payload) ==
    LET commits == DictGet(payload, "commits", JArr(<<>>))
        p == DictGet(payload, "pusher", EmptyDict) IN
    IF p.t # "obj" THEN Raise("AttributeError")
    ELSE IF commits.t # "arr" THEN Raise("TypeError")
    ELSE LET it == PrintCommits(commits.a) IN
         IF it.exc # "none" THEN it
         ELSE Return(PyStr(DictGet(p, "name", JStr("unknown"))))

\* lines 100-106: read commits and pusher, print them
LogPush(r) ==
    /\ pc[r] = "log"
    /\ LET v == PusherAndCommits(json_loads(body[r]).val) IN
         IF v.exc # "none"
         THEN /\ Propagate(r, v.exc)
              /\ UNCHANGED pusher
         ELSE /\ pusher' = [pusher EXCEPT ![r] = v.val]
              /\ Goto(r, "pull_repo")
         \* line 101 raises before line 103 prints
    /\ printed' = [printed EXCEPT ![r] =
                     IF PusherAndCommits(json_loads(body[r]).val).exc = "AttributeError"
                     THEN @ ELSE @ \cup {"Deploy branch push detected!"}]
    /\ UNCHANGED <<config, isdir, repo, body, signature_header, event, proc, cmds>>

\* return {"message": "Webhook processed successfully"}
ReturnProcessed(r) ==
    /\ pc[r] = "return"
    /\ ReturnMessage(r, "Webhook processed successfully")
    /\ UNCHANGED <<config, isdir, repo, locals, proc, cmds, printed>>

(* ------------------------------ pull_repo ------------------------------ *)
\* the exceptions the two except clauses of pull_repo catch
Caught(e) == e = "CalledProcessError"

\* AfterOk without the return after a successful clone: it falls into the
\* force-update sequence
AfterOk_CloneFallsThrough(c) ==
    CASE c = "clone" -> "fetch"
      [] c = "fetch" -> "reset"
      [] c = "reset" -> "submodule"
      [] c = "submodule" -> "update"
      [] c = "update" -> "return"

\* the line reached when command c returns normally
AfterOk(c) ==
    CASE c = "clone" -> "return"
      [] c = "fetch" -> "reset"
      [] c = "reset" -> "submodule"
      [] c = "submodule" -> "update"
      [] c = "update" -> "return"

\* what pull_repo prints when command c returns normally
PrintOk(c) ==
    CASE c = "clone" -> {"Repository cloned successfully"}
      [] c = "update" -> {"Code, submodules, and Odoo updated successfully"}
      [] OTHER -> {}

\* str(e) of the CalledProcessError that command c raises
CalledProcessErrorStr(c) == "Command " \o c \o " returned non-zero exit status 1"

\* what the except clause around command c prints, {e} included
PrintFailed(c) ==
    (IF c = "clone" THEN "Git clone failed: " ELSE "Git or Docker operation failed: ")
        \o CalledProcessErrorStr(c)

\* the synchronization outcome that the lines pull_repo printed report
Outcome(out) ==
    IF "Repository cloned successfully" \in out THEN "Cloned"
    ELSE IF PrintFailed("clone") \in out THEN "CloneFailed"
    ELSE IF "Code, submodules, and Odoo updated successfully" \in out THEN "Reset"
    ELSE IF PrintFailed("update") \in out THEN "UpdateFailed"
    ELSE IF \E c \in {"fetch", "reset", "submodule"} : PrintFailed(c) \in out
    THEN "SyncFailed"
    ELSE "none"

\* AfterFailed as with check=False: a failed command does not stop the sequence
AfterFailed_Continue(c) == AfterOk(c)

\* AfterFailed with a retry: the failed command is run again
AfterFailed_Retry(c) == c

\* the line reached when the except clause around command c has run
AfterFailed(c) == "return"

\* exception e is raised by subprocess.run for command c inside its try block
RaisedInTry(r, c, e) ==
    IF Caught(e)
    THEN /\ printed' = [printed EXCEPT ![r] = @ \cup {PrintFailed(c)}]
         /\ Goto(r, AfterFailed(c))
    ELSE /\ Propagate(r, e)
         /\ UNCHANGED printed

\* if not os.path.isdir(LOCAL_DEPLOY_REPO)
CheckDir(r) ==
    /\ pc[r] = "pull_repo"
    /\ IF LOCAL_DEPLOY_REPO = None
       THEN /\ Propagate(r, "TypeError")
            /\ UNCHANGED printed
       ELSE IF ~isdir
       THEN /\ printed' = [printed EXCEPT ![r] = @ \cup {"Directory does not exist"}]
            /\ Goto(r, "clone")
       ELSE /\ Goto(r, "fetch")
            /\ UNCHANGED printed
    /\ UNCHANGED <<config, isdir, repo, locals, proc, cmds>>

\* the argument vector subprocess.run is given for command c
Argv(c) ==
    CASE c = "clone" -> <<"git", "clone", "--recurse-submodules", "-b", "deploy",
                          REMOTE_REPO_URL, LOCAL_DEPLOY_REPO>>
      [] c = "fetch" -> <<"git", "fetch", "origin">>
      [] c = "reset" -> <<"git", "reset", "--hard", "origin/deploy">>
      [] c = "submodule" -> <<"git", "submodule", "update", "--init", "--recursive">>
      [] c = "update" -> <<"docker", "exec", "odoo-odoo-1", "odoo", "-d", "odoo",
                           "-c", "/etc/odoo/odoo.conf", "-u", "all", "--stop-after-init">>

\* the cwd= argument of command c (None: the server's own directory)
Cwd(c) == IF c \in {"fetch", "reset", "submodule"} THEN LOCAL_DEPLOY_REPO ELSE None

\* the argument vector of command c holds None: Popen raises TypeError
NoneInArgs(c) == \E i \in DOMAIN Argv(c) : Argv(c)[i] = None

\* subprocess.run(argv, check=True) is called for command c: the child is
\* spawned and waited for, or the call raises without a child
subprocess_run(r, c) ==
    /\ \E e \in (IF NoneInArgs(c) THEN {"TypeError"} ELSE {"none", "OSError"}) :
         /\ cmds' = [cmds EXCEPT ![r] =
                       Append(@, [cmd |-> c, argv |-> Argv(c), cwd |-> Cwd(c),
                                  rc |-> IF e = "none" THEN "running" ELSE e])]
         /\ IF e = "none"
            THEN /\ proc' = [proc EXCEPT ![r] = c]
                 /\ Goto(r, "wait")
                 /\ UNCHANGED printed
            ELSE /\ RaisedInTry(r, c, e)
                 /\ UNCHANGED proc
    /\ UNCHANGED <<config, isdir, repo, locals>>

GitClone(r) ==
    /\ pc[r] = "clone"
    /\ subprocess_run(r, "clone")
GitFetch(r) ==
    /\ pc[r] = "fetch"
    /\ subprocess_run(r, "fetch")
GitReset(r) ==
    /\ pc[r] = "reset"
    /\ subprocess_run(r, "reset")
GitSubmodule(r) ==
    /\ pc[r] = "submodule"
    /\ subprocess_run(r, "submodule")
DockerUpdate(r) ==
    /\ pc[r] = "update"
    /\ subprocess_run(r, "update")

\* WorktreeAfter with a rollback to the previous revision when the container
\* update fails
WorktreeAfter_Rollback(c, rc, wt, od) ==
    CASE c = "clone" /\ rc = "0" -> {RemoteTip}
      [] c = "reset" /\ rc = "0" -> {od}
      [] c = "reset" /\ rc # "0" -> {wt, od}
      [] c = "update" /\ rc # "0" -> {"old"}
      [] OTHER -> {wt}

\* the revisions the working copy can be at after command c exited with rc:
\* a clone checks out the remote tip, a reset --hard moves to origin/deploy
\* (a failed one may or may not have moved), nothing else moves it
WorktreeAfter(c, rc, wt, od) ==
    CASE c = "clone" /\ rc = "0" -> {RemoteTip}
      [] c = "reset" /\ rc = "0" -> {od}
      [] c = "reset" /\ rc # "0" -> {wt, od}
      [] OTHER -> {wt}

\* origin/deploy after command c exited with rc: clone and fetch bring it
\* to the remote tip
OriginAfter(c, rc, od) ==
    IF c \in {"clone", "fetch"} /\ rc = "0" THEN RemoteTip ELSE od

\* the revision the container runs after command c exited with rc
LoadedAfter(c, rc, loaded, wt) ==
    IF c = "update" /\ rc = "0" THEN wt ELSE loaded

\* the child exits with status rc; check=True turns rc # 0 into
\* CalledProcessError
ProcessExit(r) ==
    /\ pc[r] = "wait"
    /\ LET c == proc[r] IN
       \E rc \in {"0", "1"} :
         /\ cmds' = [cmds EXCEPT ![r][Len(cmds[r])].rc = rc]
         /\ proc' = [proc EXCEPT ![r] = ""]
         /\ worktree' \in WorktreeAfter(c, rc, worktree, origin_deploy)
         /\ origin_deploy' = OriginAfter(c, rc, origin_deploy)
         /\ odoo_loaded' = LoadedAfter(c, rc, odoo_loaded, worktree)
         /\ IF rc = "0"
            THEN /\ printed' = [printed EXCEPT ![r] = @ \cup PrintOk(c)]
                 /\ Goto(r, AfterOk(c))
                 /\ isdir' = (isdir \/ c = "clone")
            ELSE /\ RaisedInTry(r, c, "CalledProcessError")
                 /\ UNCHANGED isdir
    /\ UNCHANGED <<config, locals>>

(* --------------------------- specification ----------------------------- *)
Next ==
    \E r \in Req :
        \/ Deliver(r)
        \/ ReadRequest(r)
        \/ Verify(r)
        \/ ClassifyEvent(r)
        \/ ClassifyBranch(r)
        \/ LogPush(r)
        \/ CheckDir(r)
        \/ GitClone(r)
        \/ GitFetch(r)
        \/ GitReset(r)
        \/ GitSubmodule(r)
        \/ DockerUpdate(r)
        \/ ProcessExit(r)
        \/ ReturnProcessed(r)

Spec == Init /\ [][Next]_vars

TypeOK ==
    /\ loop \in Req \cup {0}
    /\ \A r \in Req : resp[r].status \in {0, 200, 401, 500}

(* ------------------------------ properties ----------------------------- *)
\* what verify_signature answers for the request in slot r
Verified(r) == verify_signature(body[r], signature_header[r])

\* the request in slot r has been through line 88
PastVerify(r) == pc[r] \notin {"idle", "await_body", "verify"}

\* the request in slot r has entered pull_repo or made a subprocess.run call
SyncStarted(r) ==
    \/ pc[r] \in {"pull_repo", "clone", "fetch", "reset", "submodule", "update",
                  "wait", "return"}
    \/ cmds[r] # <<>>

ForceUpdate == <<"fetch", "reset", "submodule", "update">>

\* C1: a request whose signature verification returns False is answered
\* 401 "Invalid signature" and has made no subprocess.run call.
C1_InvalidSignatureRejected ==
    \A r \in Req :
        (PastVerify(r) /\ Verified(r) = Return(FALSE)) =>
            /\ pc[r] = "done"
            /\ resp[r] = Resp(401, "Invalid signature")
            /\ cmds[r] = <<>>

C1_Witness ==
    \E r \in Req :
        /\ pc[r] = "done"
        /\ Verified(r) = Return(FALSE)
        /\ signature_header[r].present
        /\ resp[r].status = 401

\* C2: synchronization starts only for a verified "push" whose ref is
\* refs/heads/deploy; a verified request of another event type is answered
\* 200 "Ignored event: <event>", a verified push whose payload carries another
\* ref is answered 200 "Ignored branch: <ref>", both without any command.
C2_OnlyDeployPushSyncs ==
    \A r \in Req :
        /\ SyncStarted(r) =>
              /\ Verified(r) = Return(TRUE)
              /\ event[r] = "push"
              /\ PayloadRef(body[r]) = Return(Deploy)
        /\ (pc[r] = "done" /\ Verified(r) = Return(TRUE) /\ event[r] # "push") =>
              /\ resp[r] = Resp(200, "Ignored event: " \o event[r])
              /\ cmds[r] = <<>>
        /\ (pc[r] = "done" /\ Verified(r) = Return(TRUE) /\ event[r] = "push"
              /\ PayloadRef(body[r]).exc = "none"
              /\ PayloadRef(body[r]).val # Deploy) =>
              /\ resp[r] = Resp(200, "Ignored branch: " \o PyStr(PayloadRef(body[r]).val))
              /\ cmds[r] = <<>>

C2_Witness ==
    \E r \in Req :
        /\ pc[r] = "done"
        /\ Verified(r) = Return(TRUE)
        /\ event[r] = "push"
        /\ resp[r] = Resp(200, "Ignored branch: refs/heads/main")

\* the calls of one synchronization on an existing working copy
C3_Sequence(r) ==
    (cmds[r] # <<>> /\ cmds[r][1].cmd # "clone") =>
        /\ Len(cmds[r]) <= Len(ForceUpdate)
        /\ \A i \in DOMAIN cmds[r] :
              /\ cmds[r][i].cmd = ForceUpdate[i]
              /\ i < Len(cmds[r]) => cmds[r][i].rc = "0"
        /\ (pc[r] \in {"return", "done"} /\ cmds[r][Len(cmds[r])].rc = "0") =>
              Len(cmds[r]) = Len(ForceUpdate)

\* C3: with the path an existing directory pull_repo goes to fetch, and the
\* calls it makes are fetch, reset, submodule update, container update in
\* that order, each once, each only after every earlier one exited 0; all
\* four are made when none fails.
C3_ForceUpdateOrder ==
    /\ [](\A r \in Req : C3_Sequence(r))
    /\ [][\A r \in Req :
            (pc[r] = "pull_repo" /\ isdir /\ pc'[r] # pc[r]) => pc'[r] = "fetch"]_vars

C3_Witness ==
    \E r \in Req :
        /\ pc[r] = "done"
        /\ Len(cmds[r]) = 3
        /\ cmds[r][3].cmd = "submodule"
        /\ cmds[r][3].rc = "1"

\* the calls of one synchronization on a missing working copy
C4_OneClone(r) ==
    /\ (cmds[r] # <<>> /\ cmds[r][1].cmd = "clone") =>
          /\ Len(cmds[r]) = 1
          /\ cmds[r][1].argv = <<"git", "clone", "--recurse-submodules", "-b", "deploy",
                                 REMOTE_REPO_URL, LOCAL_DEPLOY_REPO>>
    /\ (pc[r] \in {"wait", "return", "done"} /\ "Directory does not exist" \in printed[r]) =>
          /\ Len(cmds[r]) = 1
          /\ cmds[r][1].cmd = "clone"

\* C4: with the path not a directory pull_repo makes exactly one call, the
\* recursive clone of branch deploy from the configured URL into the
\* configured path, and no other call follows it whether it succeeds or fails.
C4_CloneOnly ==
    /\ [](\A r \in Req : C4_OneClone(r))
    /\ [][\A r \in Req :
            (pc[r] = "pull_repo" /\ LOCAL_DEPLOY_REPO # None /\ ~isdir /\ pc'[r] # pc[r])
                => pc'[r] = "clone"]_vars

C4_Witness ==
    \E r \in Req :
        /\ pc[r] = "done"
        /\ resp[r].status = 200
        /\ Len(cmds[r]) = 1
        /\ cmds[r][1].cmd = "clone"
        /\ cmds[r][1].rc = "0"

\* the request in slot r passed lines 88-98: verified, "push", deploy ref
Qualifies(r) ==
    /\ Verified(r) = Return(TRUE)
    /\ event[r] = "push"
    /\ PayloadRef(body[r]) = Return(Deploy)

Processed == Resp(200, "Webhook processed successfully")

\* C5: every verified push to refs/heads/deploy is answered 200 "Webhook
\* processed successfully", whatever the external commands exited with.
C5_QualifyingPushAnswered200 ==
    \A r \in Req : (pc[r] = "done" /\ Qualifies(r)) => resp[r] = Processed

\* C6: an external command that cannot be invoked at all is handled like a
\* non-zero exit: caught, later steps skipped, the answer still 200
\* "Webhook processed successfully".
C6_SpawnErrorHandled ==
    \A r \in Req :
        (pc[r] = "done" /\ cmds[r] # <<>>
            /\ cmds[r][Len(cmds[r])].rc = "OSError") =>
            /\ exc[r] = "none"
            /\ resp[r] = Processed

\* C7: with a secret configured verify_signature returns a boolean for every
\* body and every header value; it never raises.
C7_VerifyNeverRaises ==
    \A r \in Req :
        (PastVerify(r) /\ GITHUB_WEBHOOK_SECRET # None) =>
            /\ Verified(r).exc = "none"
            /\ Verified(r).val \in BOOLEAN

\* C8: without a configured secret verify_signature returns False for every
\* body and header, and the request is answered 401.
C8_NoSecretAlwaysFalse ==
    \A r \in Req :
        (GITHUB_WEBHOOK_SECRET = None /\ PastVerify(r)) =>
            /\ Verified(r) = Return(FALSE)
            /\ resp[r].status = 401

\* C9: for a verified push, classification and logging (lines 95-106) never
\* raise: the handler goes on to an "Ignored branch" answer or to pull_repo,
\* with the pusher name defaulting to "unknown".
C9_ClassificationNeverRaises ==
    [][\A r \in Req :
         /\ pc[r] \in {"parse", "log"} => resp'[r].status # 500
         /\ (pc[r] = "log" /\ pc'[r] = "pull_repo"
               /\ "pusher" \notin DOMAIN json_loads(body[r]).val.f) =>
               pusher'[r] = "unknown"]_vars

\* C10: with the path or the URL absent from the configuration, the
\* synchronization of a qualifying push makes one external command, that
\* command fails, the failure is handled (answer 200) and nothing else runs.
C10_MissingConfigFailsAtFirstCommand ==
    \A r \in Req :
        (pc[r] = "done" /\ Qualifies(r)
            /\ PusherAndCommits(json_loads(body[r]).val).exc = "none"
            /\ (LOCAL_DEPLOY_REPO = None \/ REMOTE_REPO_URL = None)) =>
            /\ Len(cmds[r]) = 1
            /\ cmds[r][1].rc # "0"
            /\ resp[r] = Processed

\* command i of the request in slot r did not succeed
Failed(r, i) == i \in DOMAIN cmds[r] /\ cmds[r][i].rc # "0"

\* C11: on an existing working copy the outcome reported is SyncFailed when
\* fetch, reset or submodule update fails, UpdateFailed when only the
\* container update fails, and Reset exactly when all four succeed.
C11_OutcomeByCommandResults ==
    \A r \in Req :
        (pc[r] = "done" /\ cmds[r] # <<>> /\ cmds[r][1].cmd = "fetch") =>
            Outcome(printed[r]) =
                IF \E i \in 1..3 : Failed(r, i) THEN "SyncFailed"
                ELSE IF Failed(r, 4) THEN "UpdateFailed"
                ELSE "Reset"

\* the header "sha256=" + hexHMAC(k, body) for the body of the request in slot r
SignedWith(r, k) == Hdr(<<"sha256", "=", hexdigest(k, body[r])>>)

\* C12: with secret K configured, a request whose header is "sha256=" followed
\* by the hex HMAC of its body under key k passes verification exactly when
\* k = K: it is answered 401 when k # K and goes on to the event filter when
\* k = K.
C12_HmacAcceptsOnlyConfiguredKey ==
    \A r \in Req : \A k \in Secrets :
        (PastVerify(r) /\ GITHUB_WEBHOOK_SECRET # None
            /\ signature_header[r] = SignedWith(r, k)) =>
            /\ Verified(r) = Return(k = GITHUB_WEBHOOK_SECRET)
            /\ (resp[r].status = 401) = (k # GITHUB_WEBHOOK_SECRET)

C12_Witness ==
    \E r \in Req :
        /\ pc[r] = "event"
        /\ GITHUB_WEBHOOK_SECRET = "k1"
        /\ signature_header[r] = SignedWith(r, "k1")
        /\ body[r] = "not json"

\* the container update of the request in slot r was called and did not succeed
UpdateFailed(r) ==
    /\ Len(cmds[r]) >= 4
    /\ cmds[r][4].cmd = "update"
    /\ cmds[r][4].rc \notin {"0", "running"}

\* C13: when fetch, reset and submodule update succeeded and the container
\* update fails, the failing step leaves the working copy and origin/deploy
\* where the reset put them (the remote tip), the container keeps the revision
\* it had, and the failed update is the last command of the request.
C13_NoRollbackAfterFailedUpdate ==
    /\ [](\A r \in Req :
            UpdateFailed(r) =>
                /\ Len(cmds[r]) = 4
                /\ pc[r] \in {"return", "done"}
                /\ worktree = RemoteTip)
    /\ [][\A r \in Req :
            (~UpdateFailed(r) /\ UpdateFailed(r)') =>
                /\ worktree' = worktree
                /\ origin_deploy' = origin_deploy
                /\ odoo_loaded' = odoo_loaded]_vars

C13_Witness ==
    \E r \in Req :
        /\ pc[r] = "done"
        /\ UpdateFailed(r)
        /\ cmds[r][4].rc = "1"
        /\ worktree = "new"
        /\ odoo_loaded = "old"

(* ------------------ two near-simultaneous deploy pushes ---------------- *)
ConcReq == 1..NumConc

\* the bodies of pushes that reach pull_repo
QualifyingBodies ==
    {b \in Bodies : /\ PayloadRef(b) = Return(Deploy)
                    /\ PusherAndCommits(json_loads(b).val).exc = "none"}

\* a fully configured server with NumConc request coroutines
InitConc ==
    /\ GITHUB_WEBHOOK_SECRET = "k1"
    /\ LOCAL_DEPLOY_REPO = "/srv/deploy"
    /\ REMOTE_REPO_URL = "git@host:repo.git"
    /\ isdir \in BOOLEAN
    /\ loop = 0
    /\ pc = [r \in ConcReq |-> "idle"]
    /\ body = [r \in ConcReq |-> ""]
    /\ signature_header = [r \in ConcReq |-> NoHeader]
    /\ event = [r \in ConcReq |-> None]
    /\ pusher = [r \in ConcReq |-> ""]
    /\ proc = [r \in ConcReq |-> ""]
    /\ cmds = [r \in ConcReq |-> <<>>]
    /\ printed = [r \in ConcReq |-> {}]
    /\ exc = [r \in ConcReq |-> "none"]
    /\ resp = [r \in ConcReq |-> NoResp]
    /\ worktree = (IF isdir THEN "old" ELSE "none")
    /\ origin_deploy = (IF isdir THEN "old" ELSE "none")
    /\ odoo_loaded = "old"

\* lines 85-86 for a correctly signed push to the deploy branch
ReadQualifying(r) ==
    /\ pc[r] = "await_body"
    /\ LoopFree
    /\ \E b \in QualifyingBodies :
         /\ body' = [body EXCEPT ![r] = b]
         /\ signature_header' = [signature_header EXCEPT ![r] =
                                   Hdr(<<"sha256", "=", hexdigest(GITHUB_WEBHOOK_SECRET, b)>>)]
    /\ loop' = r
    /\ pc' = [pc EXCEPT ![r] = "verify"]
    /\ UNCHANGED <<config, isdir, repo, event, pusher, proc, cmds, printed, exc, resp>>

NextConc ==
    \E r \in ConcReq :
        \/ Deliver(r)
        \/ ReadQualifying(r)
        \/ Verify(r)
        \/ ClassifyEvent(r)
        \/ ClassifyBranch(r)
        \/ LogPush(r)
        \/ CheckDir(r)
        \/ GitClone(r)
        \/ GitFetch(r)
        \/ GitReset(r)
        \/ GitSubmodule(r)
        \/ DockerUpdate(r)
        \/ ProcessExit(r)
        \/ ReturnProcessed(r)

SpecConc == InitConc /\ [][NextConc]_vars

\* the request in slot r is inside pull_repo
InSync(r) ==
    pc[r] \in {"pull_repo", "clone", "fetch", "reset", "submodule", "update", "wait"}

\* C15 as claimed: there is no mutual exclusion, a synchronization in
\* progress does not keep a second delivered push from entering its handler
\* (and so from running its commands between those of the first).
C15_SecondPushNotBlocked ==
    \A a \in ConcReq : \A b \in ConcReq \ {a} :
        (InSync(a) /\ pc[b] = "await_body") => ENABLED ReadQualifying(b)

\* C15 as amended: no two requests are inside pull_repo at the same time, and
\* while one is, every other request is waiting for its body, idle or answered.
C15_SynchronizationsSerialized ==
    \A a \in ConcReq : \A b \in ConcReq \ {a} :
        InSync(a) => pc[b] \in {"idle", "await_body", "done"}

C15_Witness ==
    \E a \in ConcReq : \E b \in ConcReq \ {a} :
        /\ pc[a] = "wait"
        /\ proc[a] = "reset"
        /\ pc[b] = "await_body"
        /\ Len(cmds[b]) = 0

(* ------------------------- parsing and termination --------------------- *)
\* the request in slot r is at or past json.loads(body), line 95
AtOrPastParse(r) ==
    \/ pc[r] \in {"parse", "log", "pull_repo", "clone", "fetch", "reset", "submodule",
                  "update", "wait", "return"}
    \/ exc[r] \in {"JSONDecodeError", "KeyError"}
    \/ cmds[r] # <<>>

\* C16: json.loads(body) is reached only by a request that passed signature
\* verification and whose event is "push"; a verified request of another
\* event type is answered "Ignored event: <event>" whatever its body is, and
\* a rejected one never reaches the parse.
C16_ParseOnlyAfterFilters ==
    \A r \in Req :
        /\ AtOrPastParse(r) => (Verified(r) = Return(TRUE) /\ event[r] = "push")
        /\ (pc[r] = "done" /\ Verified(r) = Return(TRUE) /\ event[r] # "push") =>
              /\ exc[r] = "none"
              /\ resp[r] = Resp(200, "Ignored event: " \o event[r])
        /\ (pc[r] = "done" /\ Verified(r) = Return(FALSE)) =>
              /\ exc[r] = "none"
              /\ resp[r].status = 401

C16_Witness ==
    \E r \in Req :
        /\ pc[r] = "done"
        /\ Verified(r) = Return(TRUE)
        /\ body[r] = "not json"
        /\ event[r] = "pull_request"
        /\ resp[r] = Resp(200, "Ignored event: pull_request")

\* the steps the handler of the request in slot r takes by itself once it
\* holds the event loop
HandlerStep(r) ==
    \/ Verify(r)
    \/ ClassifyEvent(r)
    \/ ClassifyBranch(r)
    \/ LogPush(r)
    \/ CheckDir(r)
    \/ GitClone(r)
    \/ GitFetch(r)
    \/ GitReset(r)
    \/ GitSubmodule(r)
    \/ DockerUpdate(r)
    \/ ReturnProcessed(r)

\* the event loop resumes every ready coroutine in turn, a running handler
\* keeps running, and every spawned command eventually exits
Fairness ==
    \A r \in Req :
        /\ SF_vars(ReadRequest(r))
        /\ WF_vars(HandlerStep(r))
        /\ WF_vars(ProcessExit(r))

FairSpec == Spec /\ Fairness

\* C17: when every spawned command eventually exits, every delivered request
\* is eventually answered, and it makes at most four subprocess.run calls.
C17_EveryRequestAnswered ==
    /\ \A r \in Req : (pc[r] = "await_body") ~> (pc[r] = "done" /\ resp[r].status # 0)
    /\ [](\A r \in Req : Len(cmds[r]) <= 4)

C17_Witness ==
    \E r \in Req :
        /\ pc[r] = "done"
        /\ resp[r] = Processed
        /\ Len(cmds[r]) = 4

====
